---- MODULE Spec2Model ----
(***************************************************************************)
(* The tracing protocol of bacon-rajan-cc (src/trace.rs): the Trace trait, *)
(* the collector-side entry point trace_non_atomic, and the Trace impls    *)
(* for the standard containers, wrappers and leaf types.                   *)
(*                                                                         *)
(* A traversal pass is modelled as a call stack: every frame is one call   *)
(* of `trace` still to be made, or one guard still to be dropped.  The     *)
(* guards of the interior-mutability wrappers (RefCell's borrow flag,      *)
(* RwLock's holder and poison flag) are state that the calling thread and  *)
(* a second thread change around and during a pass.                        *)
(***************************************************************************)
EXTENDS Integers, Sequences, FiniteSets, TLC

\* ------------------------------------------------------------- bounds
NumPtrs == 2        \* reference-counted boxes that values may point to
MaxLen == 3         \* longest sequence container of leaf elements
MaxBorrow == 1      \* shared borrows of the RefCell held outside trace

Ptrs == 1..NumPtrs

\* ------------------------------------------------------------- values
\* Every traceable value is a node: its type, the values it holds (for a
\* map, the values of its entries, in iteration order), the keys of a map's
\* entries, and for a Result which branch is held.
\* `ptr` is the box a Cc<T> handle points to (0 for every other type).
Val(kind, kids, keys, ok) ==
    [kind |-> kind, kids |-> kids, keys |-> keys, ok |-> ok, ptr |-> 0]

NoVal == Val("none", <<>>, <<>>, TRUE)

\* A Cc<T> handle to box p.  What the box holds is not part of the value that
\* owns the handle: the collector traces it in a pass of its own.
Cc(p) == [kind |-> "Cc", kids |-> <<>>, keys |-> <<>>, ok |-> TRUE, ptr |-> p]

\* Types given `is_atomic() = true` by the atomic! macro.
MacroAtomicKinds ==
    {"bool", "char", "f32", "f64", "i16", "i32", "i64", "i8", "isize", "str",
     "u16", "u32", "u64", "u8", "usize", "unit", "String",
     "CStr", "CString", "NulError", "OsStr", "OsString",
     "AddrParseError", "Ipv4Addr", "Ipv6Addr", "SocketAddrV4", "SocketAddrV6",
     "TcpListener", "TcpStream", "UdpSocket", "Path", "PathBuf",
     "Child", "ChildStderr", "ChildStdin", "ChildStdout", "Command",
     "ExitStatus", "Output", "Stdio"}

\* Types with a hand-written empty trace and `is_atomic() = true`.
FuncKinds == {"fn0", "fn1", "fn2", "fn3", "fn4", "fn5", "fn6", "fn7"}
IoKinds == {"BufReader", "BufWriter", "Cursor", "Empty", "io::Error",
            "IntoInnerError", "LineWriter", "Lines", "Repeat", "Sink", "Split",
            "Stderr", "Stdin", "Stdout", "Take"}
RcKinds == {"Rc", "Weak"}
SyncAtomicKinds == {"Arc", "Barrier", "Condvar", "Mutex", "Once", "PoisonError"}
ThreadKinds == {"Builder", "JoinHandle", "LocalKey", "Thread"}

\* The atomic types that are generic over a payload type.
PayloadKinds == {"BufReader", "BufWriter", "Cursor", "IntoInnerError",
                 "LineWriter", "Lines", "Split", "Take", "Rc", "Weak", "Arc",
                 "Mutex", "PoisonError", "JoinHandle", "LocalKey"}

AtomicKinds == MacroAtomicKinds \cup FuncKinds \cup IoKinds \cup RcKinds
                 \cup SyncAtomicKinds \cup ThreadKinds

SeqKinds == {"slice", "Vec", "VecDeque", "LinkedList"}
MapKinds == {"BTreeMap", "HashMap"}
GuardKinds == {"RefCell", "RwLock"}
CompositeKinds == SeqKinds \cup MapKinds \cup GuardKinds
                    \cup {"Box", "Cell", "Option", "Result"}

Atomic(kind, payload) == Val(kind, payload, <<>>, TRUE)
SeqOf(kind, elems) == Val(kind, elems, <<>>, TRUE)
BoxOf(x) == Val("Box", <<x>>, <<>>, TRUE)
CellOf(x) == Val("Cell", <<x>>, <<>>, TRUE)
RefCellOf(x) == Val("RefCell", <<x>>, <<>>, TRUE)
RwLockOf(x) == Val("RwLock", <<x>>, <<>>, TRUE)
None == Val("Option", <<>>, <<>>, FALSE)
Some(x) == Val("Option", <<x>>, <<>>, TRUE)
OkOf(x) == Val("Result", <<x>>, <<>>, TRUE)
ErrOf(x) == Val("Result", <<x>>, <<>>, FALSE)
MapOf(kind, ks, vs) == Val(kind, vs, ks, TRUE)

\* ----------------------------------------------------- the values explored
SeqsUpTo(S, n) == UNION {[1..k -> S] : k \in 0..n}

Prim == Atomic("i32", <<>>)
PtrLeafs == {Cc(p) : p \in Ptrs}
Elem == PtrLeafs \cup {Prim}
RcLeaf == Atomic("Rc", <<Cc(1)>>)
Elem2 == Elem \cup {RcLeaf}

\* Instances of the atomic types; the generic ones also with a payload that
\* holds collector-managed pointers.
AtomicVals ==
    {Atomic(k, <<>>) : k \in AtomicKinds}
      \cup {Atomic(k, <<x>>) : k \in PayloadKinds,
                               x \in PtrLeafs \cup {SeqOf("Vec", <<Cc(1)>>)}}

FlatSeqs == {SeqOf(k, s) : k \in SeqKinds, s \in SeqsUpTo(Elem, MaxLen)}

\* Cell<T> needs T: Copy, and no type holding a Cc is Copy.
CopyVals == {Prim, Atomic("fn0", <<>>), None, Some(Prim), OkOf(Prim), ErrOf(Prim)}

FlatWraps ==
    {None}
      \cup {BoxOf(x) : x \in Elem2} \cup {Some(x) : x \in Elem2}
      \cup {OkOf(x) : x \in Elem2} \cup {ErrOf(x) : x \in Elem2}
      \cup {RefCellOf(x) : x \in Elem2} \cup {RwLockOf(x) : x \in Elem2}
      \cup {CellOf(x) : x \in CopyVals}

\* Maps of up to two entries with distinct keys; a BTreeMap iterates in key
\* order, a HashMap in any order.
KeyRank(k) == k.ptr
FlatMaps ==
    {MapOf(m, <<>>, <<>>) : m \in MapKinds}
      \cup {MapOf(m, <<k>>, <<x>>) : m \in MapKinds, k \in Elem, x \in Elem}
      \cup {MapOf("HashMap", <<kk[1], kk[2]>>, <<x1, x2>>) :
               kk \in {q \in Elem \X Elem : q[1] # q[2]},
               x1 \in Elem, x2 \in Elem}
      \cup {MapOf("BTreeMap", <<kk[1], kk[2]>>, <<x1, x2>>) :
               kk \in {q \in Elem \X Elem : KeyRank(q[1]) < KeyRank(q[2])},
               x1 \in Elem, x2 \in Elem}

\* Containers and wrappers that are themselves put into containers.
Inner ==
    {SeqOf("Vec", <<>>), None, RcLeaf, SeqOf("Vec", <<Cc(1), Prim>>)}
      \cup {SeqOf("Vec", <<x>>) : x \in PtrLeafs}
      \cup {Some(x) : x \in PtrLeafs} \cup {BoxOf(x) : x \in PtrLeafs}
      \cup {ErrOf(x) : x \in PtrLeafs}
      \cup {RefCellOf(x) : x \in PtrLeafs} \cup {RwLockOf(x) : x \in PtrLeafs}

RECURSIVE CountKind(_, _)
CountKind(v, kind) ==
    LET n == Len(v.kids)
        F[i \in 0..n] == IF i = 0 THEN 0 ELSE F[i - 1] + CountKind(v.kids[i], kind)
    IN  (IF v.kind = kind THEN 1 ELSE 0) + F[n]

\* One RefCell and one RwLock at most: the model keeps one borrow flag and
\* one lock.
OneGuardEach(v) == CountKind(v, "RefCell") <= 1 /\ CountKind(v, "RwLock") <= 1

Nested ==
    {v \in {BoxOf(x) : x \in Inner} \cup {Some(x) : x \in Inner}
             \cup {OkOf(x) : x \in Inner} \cup {ErrOf(x) : x \in Inner}
             \cup {RefCellOf(x) : x \in Inner} \cup {RwLockOf(x) : x \in Inner}
             \cup {MapOf(m, <<Prim>>, <<x>>) : m \in MapKinds, x \in Inner}
             \cup {SeqOf(k, <<x>>) : k \in SeqKinds, x \in Inner}
             \cup {SeqOf("Vec", <<x, y>>) : x \in Inner, y \in Inner \cup Elem} :
        OneGuardEach(v)}

Values == AtomicVals \cup PtrLeafs \cup FlatSeqs \cup FlatWraps \cup FlatMaps \cup Nested

HasCell(v) == CountKind(v, "RefCell") > 0
HasLock(v) == CountKind(v, "RwLock") > 0

\* ------------------------------------------------ the Trace implementations
\* Each trace_X gives, in call order, the values on which X's `trace` calls
\* `trace` in turn with the same tracer.

\* Trace::is_atomic: false by default, true where an impl overrides it.
is_atomic(v) ==
    CASE v.kind \in MacroAtomicKinds -> TRUE
      [] v.kind \in FuncKinds -> TRUE
      [] v.kind \in IoKinds -> TRUE
      [] v.kind \in RcKinds -> TRUE
      [] v.kind \in SyncAtomicKinds -> TRUE
      [] v.kind \in ThreadKinds -> TRUE
      [] OTHER -> FALSE

\* A trace_non_atomic that forgets the is_atomic test.
trace_non_atomic_unchecked(this) == <<this>>

\* trace_non_atomic: the values on which it calls `trace`.
trace_non_atomic(this) == IF ~is_atomic(this) THEN <<this>> ELSE <<>>

trace_atomic(v) == <<>>
trace_func(v) == <<>>
trace_io(v) == <<>>
\* An Rc that forwards the tracer into its payload.
trace_rc_forward(v) == v.kids
trace_rc(v) == <<>>
trace_sync_atomic(v) == <<>>
trace_thread(v) == <<>>

trace_slice(v) == v.kids
\* A Vec that starts iterating at its second element.
trace_Vec_skip_first(v) == IF v.kids = <<>> THEN <<>> ELSE Tail(v.kids)
trace_Vec(v) == v.kids
trace_VecDeque(v) == v.kids
trace_LinkedList(v) == v.kids
\* A Box that does not look into what it owns.
trace_Box_opaque(v) == <<>>
trace_Box(v) == <<v.kids[1]>>
\* Cell::get hands out a copy of the held value, which is then traced.
trace_Cell(v) == <<v.kids[1]>>
trace_BTreeMap(v) == v.kids
\* A HashMap that traces keys as well as values.
trace_HashMap_with_keys(v) == v.keys \o v.kids
trace_HashMap(v) == v.kids
trace_Option(v) == IF Len(v.kids) = 1 THEN <<v.kids[1]>> ELSE <<>>
\* A Result that traces the success branch only.
trace_Result_ok_only(v) == IF v.ok THEN <<v.kids[1]>> ELSE <<>>
trace_Result(v) == IF v.ok THEN <<v.kids[1]>> ELSE <<v.kids[1]>>

Callees(v) ==
    CASE v.kind \in MacroAtomicKinds -> trace_atomic(v)
      [] v.kind \in FuncKinds -> trace_func(v)
      [] v.kind \in IoKinds -> trace_io(v)
      [] v.kind \in RcKinds -> trace_rc(v)
      [] v.kind \in SyncAtomicKinds -> trace_sync_atomic(v)
      [] v.kind \in ThreadKinds -> trace_thread(v)
      [] v.kind = "slice" -> trace_slice(v)
      [] v.kind = "Vec" -> trace_Vec(v)
      [] v.kind = "VecDeque" -> trace_VecDeque(v)
      [] v.kind = "LinkedList" -> trace_LinkedList(v)
      [] v.kind = "Box" -> trace_Box(v)
      [] v.kind = "Cell" -> trace_Cell(v)
      [] v.kind = "BTreeMap" -> trace_BTreeMap(v)
      [] v.kind = "HashMap" -> trace_HashMap(v)
      [] v.kind = "Option" -> trace_Option(v)
      [] v.kind = "Result" -> trace_Result(v)

\* RefCell::try_borrow on a borrow flag (negative: exclusively borrowed,
\* positive: that many shared borrows): does it hand out a Ref?
\* (a try_borrow that never refuses)
try_borrow_unchecked(flag) == TRUE
try_borrow(flag) == flag >= 0
\* The Ref taken by RefCell's trace, and its drop at the end of the `if let`.
take_Ref(flag) == flag + 1
\* (a Ref released twice)
drop_Ref_twice(flag) == flag - 2
drop_Ref(flag) == flag - 1

\* RwLock::write on a lock that no thread holds: the write guard is taken,
\* and handed to the `if let Ok(v)` body unless the lock is poisoned.
write_ok(l) == ~l.poisoned
take_WriteGuard(l) == [l EXCEPT !.holder = "trace_w"]
\* (a write guard that is leaked instead of dropped)
drop_WriteGuard_leaked(l) == l
drop_WriteGuard(l) == [l EXCEPT !.holder = "free"]

\* ------------------------------------------------------------------ state
VARIABLES
    value,      \* the value a box holds
    borrow,     \* the borrow flag of the RefCell in `value`
    lock,       \* the RwLock in `value`: who holds it, and whether poisoned
    pc,         \* where the calling thread is
    stack,      \* the calls of `trace` and the guard drops still to be made
    visited,    \* how often the tracer was invoked on each box in this pass
    target,     \* what this pass traces: 0 the value, i its i-th inner value
    entry,      \* how the pass was entered: trace or trace_non_atomic
    traceCalls, \* how often the entry point called `trace` on its argument
    probe,      \* outcome of the last try_borrow_mut made inside the tracer
    pre,        \* the value and its guards as they were when the pass began
    hist,       \* results of the last passes over the value, nothing changed between
    parts       \* results of the passes over inner values 1..k, nothing changed since

vars == <<value, borrow, lock, pc, stack, visited, target, entry, traceCalls,
          probe, pre, hist, parts>>

Zero == [p \in Ptrs |-> 0]
Frame(op, v) == [op |-> op, v |-> v]
Calls(vs) == [i \in 1..Len(vs) |-> Frame("trace", vs[i])]
FreeLock == [holder |-> "free", poisoned |-> FALSE]

Init ==
    /\ value \in Values
    /\ borrow = 0
    /\ lock = FreeLock
    /\ pc = "idle"
    /\ stack = <<>>
    /\ visited = Zero
    /\ target = 0
    /\ entry = "trace"
    /\ traceCalls = 0
    /\ probe = "none"
    /\ pre = [value |-> value, borrow |-> 0, lock |-> FreeLock, valid |-> TRUE]
    /\ hist = <<>>
    /\ parts = <<>>

Quiescent == pc \in {"idle", "done"}
TargetVal == IF target = 0 THEN value ELSE value.kids[target]
Top == Head(stack)
InPass == pc = "running" /\ stack # <<>>

\* ------------------------------------------------- the collector's calls
\* A pass begins: the collector calls `trace` or trace_non_atomic with a fresh
\* tracer.  Inner values are traced one after the other, in order.
Start(t, e) ==
    /\ Quiescent
    /\ t \in {0, Len(parts) + 1} \cap (0..Len(value.kids))
    /\ e = "trace_non_atomic" => t = 0
    /\ LET tv == IF t = 0 THEN value ELSE value.kids[t]
           callees == IF e = "trace_non_atomic" THEN trace_non_atomic(tv) ELSE <<tv>>
       IN  /\ stack' = Calls(callees)
           /\ traceCalls' = Len(callees)
    /\ target' = t
    /\ entry' = e
    /\ pc' = "running"
    /\ visited' = Zero
    /\ probe' = "none"
    /\ pre' = [value |-> value, borrow |-> borrow, lock |-> lock, valid |-> TRUE]
    /\ UNCHANGED <<value, borrow, lock, hist, parts>>

\* The outermost call returns to the collector.  Its result is recorded
\* unless another thread changed the lock while the pass was running.
Return ==
    /\ pc = "running"
    /\ stack = <<>>
    /\ pc' = "done"
    /\ hist' = IF pre.valid /\ entry = "trace" /\ target = 0
               THEN (IF Len(hist) = 2 THEN <<hist[2], visited>> ELSE Append(hist, visited))
               ELSE hist
    /\ parts' = IF pre.valid /\ entry = "trace" /\ target = Len(parts) + 1
                THEN Append(parts, visited)
                ELSE parts
    /\ UNCHANGED <<value, borrow, lock, stack, visited, target, entry, traceCalls,
                   probe, pre>>

\* ------------------------------------------------------- steps of a pass
\* `trace` of a type without a guard: it calls `trace` on what it holds.
TraceUnguarded ==
    /\ InPass
    /\ Top.op = "trace"
    /\ Top.v.kind \in (AtomicKinds \cup CompositeKinds) \ GuardKinds
    /\ stack' = Calls(Callees(Top.v)) \o Tail(stack)
    /\ UNCHANGED <<value, borrow, lock, pc, visited, target, entry, traceCalls,
                   probe, pre, hist, parts>>

\* `trace` of a Cc<T>: the tracer is invoked on the box.  The tracer may try
\* to borrow the RefCell exclusively; it drops the RefMut again at once.
TraceCc(attempt) ==
    /\ InPass
    /\ Top.op = "trace"
    /\ Top.v.kind = "Cc"
    /\ attempt => HasCell(value)
    /\ visited' = [visited EXCEPT ![Top.v.ptr] = @ + 1]
    /\ probe' = IF ~attempt THEN probe
                ELSE (IF \E i \in DOMAIN stack : stack[i].op = "dropRef"
                      THEN "in_" ELSE "out_") \o (IF borrow = 0 THEN "ok" ELSE "err")
    /\ stack' = Tail(stack)
    /\ UNCHANGED <<value, borrow, lock, pc, target, entry, traceCalls, pre, hist, parts>>

\* `trace` of a RefCell<T>.
TraceRefCell ==
    /\ InPass
    /\ Top.op = "trace"
    /\ Top.v.kind = "RefCell"
    /\ IF try_borrow(borrow)
       THEN /\ borrow' = take_Ref(borrow)
            /\ stack' = <<Frame("trace", Top.v.kids[1]), Frame("dropRef", NoVal)>>
                          \o Tail(stack)
       ELSE /\ stack' = Tail(stack)
            /\ UNCHANGED borrow
    /\ UNCHANGED <<value, lock, pc, visited, target, entry, traceCalls, probe, pre,
                   hist, parts>>

\* The Ref that RefCell's trace took goes out of scope.
DropRef ==
    /\ InPass
    /\ Top.op = "dropRef"
    /\ borrow' = drop_Ref(borrow)
    /\ stack' = Tail(stack)
    /\ UNCHANGED <<value, lock, pc, visited, target, entry, traceCalls, probe, pre,
                   hist, parts>>

\* What unwinding does to the guards the pass holds: every Ref is dropped,
\* and a write guard dropped during a panic poisons its lock.
UnwoundBorrow ==
    borrow - Cardinality({i \in DOMAIN stack : stack[i].op = "dropRef"})
UnwoundLock ==
    IF \E i \in DOMAIN stack : stack[i].op = "dropWrite"
    THEN [holder |-> "free", poisoned |-> TRUE]
    ELSE lock

\* `trace` of a RwLock<T>: RwLock::write.
\*  - no holder: the guard is taken; on a poisoned lock write() returns Err
\*    and the guard inside the error is dropped without tracing;
\*  - held by another thread: the calling thread sleeps until it is released;
\*  - held by the calling thread: write() deadlocks or panics, whichever the
\*    platform's lock does (`outcome`; it matters in this case only).
TraceRwLock(outcome) ==
    /\ pc \in {"running", "blocked"}
    /\ stack # <<>>
    /\ Top.op = "trace"
    /\ Top.v.kind = "RwLock"
    /\ CASE lock.holder = "free" ->
              /\ outcome = "deadlock"
              /\ pc' = "running"
              /\ IF write_ok(lock)
                 THEN /\ lock' = take_WriteGuard(lock)
                      /\ stack' = <<Frame("trace", Top.v.kids[1]),
                                    Frame("dropWrite", NoVal)>> \o Tail(stack)
                 ELSE /\ stack' = Tail(stack)
                      /\ UNCHANGED lock
              /\ UNCHANGED borrow
         [] lock.holder \in {"other_r", "other_w"} ->
              /\ outcome = "deadlock"
              /\ pc = "running"
              /\ pc' = "blocked"
              /\ UNCHANGED <<stack, lock, borrow>>
         [] lock.holder \in {"self_r", "self_w"} ->
              IF outcome = "deadlock"
              THEN /\ pc' = "deadlock"
                   /\ UNCHANGED <<stack, lock, borrow>>
              ELSE /\ pc' = "panicked"
                   /\ stack' = <<>>
                   /\ borrow' = UnwoundBorrow
                   /\ lock' = UnwoundLock
         [] OTHER -> FALSE
    /\ UNCHANGED <<value, visited, target, entry, traceCalls, probe, pre, hist, parts>>

\* The write guard that RwLock's trace took goes out of scope.
DropWriteGuard ==
    /\ InPass
    /\ Top.op = "dropWrite"
    /\ lock' = drop_WriteGuard(lock)
    /\ stack' = Tail(stack)
    /\ UNCHANGED <<value, borrow, pc, visited, target, entry, traceCalls, probe, pre,
                   hist, parts>>

\* ---------------------------------------- the program around the passes
\* The calling thread, between passes, takes or drops a guard of the RefCell.
\* Everything recorded about earlier passes is void after a change.
CellBorrow(exclusive) ==
    /\ Quiescent
    /\ HasCell(value)
    /\ IF exclusive THEN borrow = 0 /\ borrow' = -1
                    ELSE borrow >= 0 /\ borrow < MaxBorrow /\ borrow' = borrow + 1
    /\ pc' = "idle"
    /\ hist' = <<>>
    /\ parts' = <<>>
    /\ UNCHANGED <<value, lock, stack, visited, target, entry, traceCalls, probe, pre>>

CellRelease ==
    /\ Quiescent
    /\ HasCell(value)
    /\ borrow # 0
    /\ borrow' = IF borrow < 0 THEN 0 ELSE borrow - 1
    /\ pc' = "idle"
    /\ hist' = <<>>
    /\ parts' = <<>>
    /\ UNCHANGED <<value, lock, stack, visited, target, entry, traceCalls, probe, pre>>

\* The calling thread, between passes, takes or drops a guard of the RwLock.
SelfLock(mode) ==
    /\ Quiescent
    /\ HasLock(value)
    /\ lock.holder = "free"
    /\ lock' = [lock EXCEPT !.holder = mode]
    /\ pc' = "idle"
    /\ hist' = <<>>
    /\ parts' = <<>>
    /\ UNCHANGED <<value, borrow, stack, visited, target, entry, traceCalls, probe, pre>>

SelfUnlock ==
    /\ Quiescent
    /\ lock.holder \in {"self_r", "self_w"}
    /\ lock' = [lock EXCEPT !.holder = "free"]
    /\ pc' = "idle"
    /\ hist' = <<>>
    /\ parts' = <<>>
    /\ UNCHANGED <<value, borrow, stack, visited, target, entry, traceCalls, probe, pre>>

\* Another thread takes a guard of the RwLock, at any time.
OtherLock(mode) ==
    /\ HasLock(value)
    /\ pc \notin {"deadlock", "panicked"}
    /\ lock.holder = "free"
    /\ lock' = [lock EXCEPT !.holder = mode]
    /\ pc' = IF pc = "done" THEN "idle" ELSE pc
    /\ pre' = [pre EXCEPT !.valid = FALSE]
    /\ hist' = <<>>
    /\ parts' = <<>>
    /\ UNCHANGED <<value, borrow, stack, visited, target, entry, traceCalls, probe>>

\* The other thread drops its guard; if it panicked while writing, the lock
\* is poisoned.
OtherUnlock(panicking) ==
    /\ lock.holder \in {"other_r", "other_w"}
    /\ panicking => lock.holder = "other_w"
    /\ lock' = [holder |-> "free", poisoned |-> lock.poisoned \/ panicking]
    /\ pc' = IF pc = "done" THEN "idle" ELSE pc
    /\ pre' = [pre EXCEPT !.valid = FALSE]
    /\ hist' = <<>>
    /\ parts' = <<>>
    /\ UNCHANGED <<value, borrow, stack, visited, target, entry, traceCalls, probe>>

\* The program removes the last element of the sequence the box holds.
Mutate ==
    /\ Quiescent
    /\ value.kind \in SeqKinds
    /\ value.kids # <<>>
    /\ CountKind(value.kids[Len(value.kids)], "RefCell") > 0 => borrow = 0
    /\ CountKind(value.kids[Len(value.kids)], "RwLock") > 0 => lock = FreeLock
    /\ value' = [value EXCEPT !.kids = SubSeq(@, 1, Len(@) - 1)]
    /\ pc' = "idle"
    /\ hist' = <<>>
    /\ parts' = <<>>
    /\ UNCHANGED <<borrow, lock, stack, visited, target, entry, traceCalls, probe, pre>>

Next ==
    \/ \E t \in 0..MaxLen, e \in {"trace", "trace_non_atomic"} : Start(t, e)
    \/ Return
    \/ TraceUnguarded
    \/ \E attempt \in BOOLEAN : TraceCc(attempt)
    \/ TraceRefCell
    \/ DropRef
    \/ \E outcome \in {"deadlock", "panic"} : TraceRwLock(outcome)
    \/ DropWriteGuard
    \/ \E exclusive \in BOOLEAN : CellBorrow(exclusive)
    \/ CellRelease
    \/ \E mode \in {"self_r", "self_w"} : SelfLock(mode)
    \/ SelfUnlock
    \/ \E mode \in {"other_r", "other_w"} : OtherLock(mode)
    \/ \E panicking \in BOOLEAN : OtherUnlock(panicking)
    \/ Mutate

Spec == Init /\ [][Next]_vars

\* ============================================================== properties
Started == pc # "idle"
Returned == pc = "done"
Stuck == pc \in {"blocked", "deadlock", "panicked"}
IsLeaf(v) == v.kind = "Cc" \/ v.kind \in AtomicKinds
\* How many of the values in vs are handles to box p.
Handles(vs, p) == Cardinality({i \in DOMAIN vs : vs[i].kind = "Cc" /\ vs[i].ptr = p})
DirectHandles(vs) == [p \in Ptrs |-> Handles(vs, p)]
SumBags(bs) ==
    LET F[i \in 0..Len(bs)] ==
          IF i = 0 THEN Zero ELSE [p \in Ptrs |-> F[i - 1][p] + bs[i][p]]
    IN  F[Len(bs)]

\* C1, as claimed: when trace is called on a RefCell of which any guard,
\* shared or exclusive, is held outside, the tracer is never invoked and the
\* call neither blocks nor panics.
C1_GuardSkipAnyGuard ==
    (Started /\ TargetVal.kind = "RefCell" /\ pre.borrow # 0)
        => (visited = Zero /\ ~Stuck)

\* C1, amended: when trace is called on a RefCell whose exclusive guard
\* (RefMut) is held outside, the tracer is never invoked and the call neither
\* blocks nor panics, whatever the cell holds.
C1_GuardSkipExclusive ==
    (Started /\ TargetVal.kind = "RefCell" /\ pre.borrow < 0)
        => (visited = Zero /\ ~Stuck)

C1_Witness ==
    /\ Returned
    /\ TargetVal.kind = "RefCell"
    /\ pre.borrow < 0
    /\ CountKind(TargetVal, "Cc") > 0

\* C2: a call of trace never waits for a guard and never fails to return: the
\* calling thread is never asleep in, deadlocked in or unwinding out of trace.
C2_TraceNeverBlocks == ~Stuck

\* C3: trace called on an instance of a type whose is_atomic is true invokes
\* the tracer zero times, whatever the instance holds.
C3_AtomicVisitsNothing ==
    (Started /\ entry = "trace" /\ is_atomic(TargetVal)) => visited = Zero

C3_Witness ==
    /\ Returned
    /\ entry = "trace"
    /\ TargetVal.kind \in {"Rc", "Arc", "Mutex"}
    /\ CountKind(TargetVal, "Cc") > 0

\* C4: trace of a sequence container or Box whose elements are pointers and
\* atomic values invokes the tracer exactly once per pointer element and never
\* for an atomic element; on the empty container, never.
C4_ContainerVisitsEachPointerOnce ==
    (/\ Returned
     /\ entry = "trace"
     /\ TargetVal.kind \in SeqKinds \cup {"Box"}
     /\ \A i \in DOMAIN TargetVal.kids : IsLeaf(TargetVal.kids[i]))
        => visited = DirectHandles(TargetVal.kids)

C4_Witness ==
    /\ Returned
    /\ entry = "trace"
    /\ TargetVal.kind = "Vec"
    /\ Len(TargetVal.kids) = 3
    /\ TargetVal.kids[1].kind = "Cc"
    /\ TargetVal.kids[2].kind = "Cc"
    /\ TargetVal.kids[3].kind = "i32"

\* C5: trace_non_atomic calls trace on its argument never when is_atomic is
\* true and exactly once when it is false; and is_atomic is false for every
\* container, Box, Cell, RefCell, RwLock, Option and Result, whatever it holds.
C5_TraceNonAtomic ==
    /\ (Started /\ entry = "trace_non_atomic")
          => traceCalls = (IF is_atomic(TargetVal) THEN 0 ELSE 1)
    /\ value.kind \in CompositeKinds => ~is_atomic(value)

C5_Witness ==
    /\ Returned
    /\ entry = "trace_non_atomic"
    /\ is_atomic(TargetVal)
    /\ CountKind(TargetVal, "Cc") > 0
    /\ traceCalls = 0

\* C6: trace of a map invokes the tracer once per pointer stored as a value
\* and never for a pointer stored as a key.
C6_MapTracesValuesOnly ==
    (/\ Returned
     /\ entry = "trace"
     /\ TargetVal.kind \in MapKinds
     /\ \A i \in DOMAIN TargetVal.kids : IsLeaf(TargetVal.kids[i]))
        => visited = DirectHandles(TargetVal.kids)

C6_Witness ==
    /\ Returned
    /\ entry = "trace"
    /\ TargetVal.kind = "HashMap"
    /\ Len(TargetVal.kids) = 2
    /\ \E i \in 1..2 : TargetVal.keys[i].kind = "Cc" /\ TargetVal.kids[i].kind = "Cc"
                         /\ TargetVal.keys[i].ptr # TargetVal.kids[i].ptr

\* C7: trace of an Option or Result visits the value of the branch held: no
\* invocation for None, exactly one for Some(pointer), Ok(pointer) and
\* Err(pointer), and that one on the pointer held.
C7_OptionResultBranch ==
    (/\ Returned
     /\ entry = "trace"
     /\ TargetVal.kind \in {"Option", "Result"}
     /\ \A i \in DOMAIN TargetVal.kids : IsLeaf(TargetVal.kids[i]))
        => /\ visited = DirectHandles(TargetVal.kids)
           /\ TargetVal.kids = <<>> => visited = Zero
           /\ (TargetVal.kids # <<>> /\ TargetVal.kids[1].kind = "Cc")
                 => visited = [Zero EXCEPT ![TargetVal.kids[1].ptr] = 1]

C7_Witness ==
    /\ Returned
    /\ entry = "trace"
    /\ TargetVal.kind = "Result"
    /\ ~TargetVal.ok
    /\ TargetVal.kids[1].kind = "Cc"

\* The passes over every inner value of the box's value and the pass over the
\* value itself have all returned, with no guard held and nothing changed in
\* between.
Composed ==
    /\ Returned
    /\ entry = "trace"
    /\ target = 0
    /\ value.kind \in CompositeKinds
    /\ Len(parts) = Len(value.kids)
    /\ borrow = 0
    /\ lock.holder = "free"

C9_Idempotent == Len(hist) = 2 => hist[1] = hist[2]

C9_Witness ==
    /\ Len(hist) = 2
    /\ HasCell(value)
    /\ HasLock(value)
    /\ hist[2] # Zero

\* C10: when trace returns, the value is as it was, the borrow flag is as it
\* was, the pass holds no write guard and, no other thread having touched the
\* lock, the lock is as it was; and a try_borrow_mut made by the tracer while
\* RefCell's trace is running does not succeed.
C10_TraceLeavesNoTrace ==
    /\ Returned => /\ value = pre.value
                   /\ borrow = pre.borrow
                   /\ lock.holder # "trace_w"
                   /\ pre.valid => lock = pre.lock
    /\ probe # "in_ok"

C10_Witness ==
    /\ Returned
    /\ pre.valid
    /\ HasCell(value)
    /\ HasLock(value)
    /\ target = 0
    /\ probe = "in_err"
    /\ visited # Zero

====
